---- MODULE Spec2Model ----
(***************************************************************************)
(* Model of the aggregation logic of the cross-country site builders       *)
(* (team-builder.py, site_builder1.py).                                    *)
(*                                                                         *)
(* Python strings are sequences of one-character strings, so that the      *)
(* parsers (time_to_seconds, parse_date, is_valid_grade, str.isdigit) are  *)
(* computed character by character as the code computes them.  Python's    *)
(* None is the record status "none", a raised exception that leaves the    *)
(* function is the status "raised".                                        *)
(***************************************************************************)
EXTENDS Integers, Sequences, FiniteSets, TLC

VARIABLES pc, t, d, records, athletes, rows, result

vars == <<pc, t, d, records, athletes, rows, result>>

(***************************************************************************)
(* Bounds of the model.                                                    *)
(***************************************************************************)
MaxTimeLen == 4
FracDigits == 3
MaxRecords == 3
MaxAthletes == 2
MaxRows == 3

(***************************************************************************)
(* Characters and strings.                                                 *)
(***************************************************************************)
Digits == {"0", "1", "2", "3", "4", "5", "6", "7", "8", "9"}

DigitVal(c) ==
    CASE c = "0" -> 0 [] c = "1" -> 1 [] c = "2" -> 2 [] c = "3" -> 3
      [] c = "4" -> 4 [] c = "5" -> 5 [] c = "6" -> 6 [] c = "7" -> 7
      [] c = "8" -> 8 [] c = "9" -> 9

Whitespace == {" "}

NA == <<"N", "/", "A">>

None == [status |-> "none", val |-> 0]

Raised == [status |-> "raised", val |-> 0]

Ok(v) == [status |-> "ok", val |-> v]

RECURSIVE Pow10(_)
Pow10(n) == IF n = 0 THEN 1 ELSE 10 * Pow10(n - 1)

Contains(s, c) == \E i \in 1..Len(s) : s[i] = c

RECURSIVE LStrip(_)
LStrip(s) == IF s # <<>> /\ Head(s) \in Whitespace THEN LStrip(Tail(s)) ELSE s

RECURSIVE RStrip(_)
RStrip(s) ==
    IF s # <<>> /\ s[Len(s)] \in Whitespace
    THEN RStrip(SubSeq(s, 1, Len(s) - 1))
    ELSE s

\* str.strip()
Strip(s) == RStrip(LStrip(s))

\* t.replace("PR", ""): non-overlapping occurrences, left to right
RECURSIVE ReplacePR(_)
ReplacePR(s) ==
    IF Len(s) < 2 THEN s
    ELSE IF s[1] = "P" /\ s[2] = "R" THEN ReplacePR(SubSeq(s, 3, Len(s)))
    ELSE <<s[1]>> \o ReplacePR(Tail(s))

\* str.split(c): the list of the parts between the occurrences of c
RECURSIVE SplitAcc(_, _, _)
SplitAcc(s, c, cur) ==
    IF s = <<>> THEN <<cur>>
    ELSE IF Head(s) = c THEN <<cur>> \o SplitAcc(Tail(s), c, <<>>)
    ELSE SplitAcc(Tail(s), c, Append(cur, Head(s)))

Split(s, c) == SplitAcc(s, c, <<>>)

\* str.isdigit()
IsDigit(s) == s # <<>> /\ \A i \in 1..Len(s) : s[i] \in Digits

RECURSIVE DecVal(_)
DecVal(s) ==
    IF s = <<>> THEN 0
    ELSE 10 * DecVal(SubSeq(s, 1, Len(s) - 1)) + DigitVal(s[Len(s)])

\* int(s): surrounding whitespace is ignored, then a decimal literal
\* (optional sign); anything else raises ValueError
IntBody(s) ==
    IF s # <<>> /\ s[1] \in {"+", "-"} THEN Tail(s) ELSE s

IntOk(s) == IsDigit(IntBody(Strip(s)))

IntVal(s) ==
    LET b == Strip(s)
    IN  IF b[1] = "-" THEN 0 - DecVal(Tail(b))
        ELSE DecVal(IntBody(b))

\* float(s) on decimal literals "12", "12.", ".5", "12.5" (whitespace around
\* is ignored); the value is kept exactly, in units of 10^-FracDigits
FloatParts(s) == Split(Strip(s), ".")

FloatOk(s) ==
    LET p == FloatParts(s)
    IN  \/ Len(p) = 1 /\ IsDigit(p[1])
        \/ /\ Len(p) = 2
           /\ p[1] \o p[2] # <<>>
           /\ \A i \in 1..2 : \A k \in 1..Len(p[i]) : p[i][k] \in Digits
           /\ Len(p[2]) <= FracDigits

FloatVal(s) ==
    LET p == FloatParts(s)
    IN  IF Len(p) = 1 THEN DecVal(p[1]) * Pow10(FracDigits)
        ELSE DecVal(p[1]) * Pow10(FracDigits)
               + DecVal(p[2]) * Pow10(FracDigits - Len(p[2]))

(***************************************************************************)
(* time_to_seconds                                                         *)
(***************************************************************************)
time_to_seconds(tm) ==
    IF ~Contains(tm, ":") THEN None
    ELSE LET parts == Split(Strip(ReplacePR(tm)), ":")
         IN  IF Len(parts) # 2 THEN Raised
             ELSE IF ~IntOk(parts[1]) THEN Raised
             ELSE IF ~FloatOk(parts[2]) THEN Raised
             ELSE Ok(IntVal(parts[1]) * 60 * Pow10(FracDigits)
                       + FloatVal(parts[2]))

(***************************************************************************)
(* safe: the trimmed field, or the default when it is absent or blank.     *)
(* An absent key and a blank value are both the empty string.              *)
(***************************************************************************)
safe(row, key, default) ==
    LET val == Strip(row[key])
    IN  IF val # <<>> THEN val ELSE default

(***************************************************************************)
(* parse_date: datetime.strptime(d, "%b %d %Y"), None on any exception.    *)
(* The format is matched case-insensitively from the start of the string   *)
(* to its end: month abbreviation, whitespace, one or two digits of day    *)
(* (1..31), whitespace, exactly four digits of year; then the date must    *)
(* exist.  The value is the calendar date as year*10000 + month*100 + day. *)
(***************************************************************************)
UpperLetters ==
    <<"A", "B", "C", "D", "E", "F", "G", "H", "I", "J", "K", "L", "M",
      "N", "O", "P", "Q", "R", "S", "T", "U", "V", "W", "X", "Y", "Z">>

LowerLetters ==
    <<"a", "b", "c", "d", "e", "f", "g", "h", "i", "j", "k", "l", "m",
      "n", "o", "p", "q", "r", "s", "t", "u", "v", "w", "x", "y", "z">>

LowerChar(c) ==
    IF \E i \in 1..26 : UpperLetters[i] = c
    THEN LowerLetters[CHOOSE i \in 1..26 : UpperLetters[i] = c]
    ELSE c

Lower(s) == [i \in 1..Len(s) |-> LowerChar(s[i])]

MonthNames ==
    << <<"j", "a", "n">>, <<"f", "e", "b">>, <<"m", "a", "r">>,
       <<"a", "p", "r">>, <<"m", "a", "y">>, <<"j", "u", "n">>,
       <<"j", "u", "l">>, <<"a", "u", "g">>, <<"s", "e", "p">>,
       <<"o", "c", "t">>, <<"n", "o", "v">>, <<"d", "e", "c">> >>

IsLeap(y) == (y % 4 = 0 /\ y % 100 # 0) \/ y % 400 = 0

DaysIn(m, y) ==
    IF m = 2 THEN (IF IsLeap(y) THEN 29 ELSE 28)
    ELSE IF m \in {4, 6, 9, 11} THEN 30 ELSE 31

\* the maximal runs of non-whitespace characters
DateTokens(s) == SelectSeq(Split(s, " "), LAMBDA p : p # <<>>)

\* the month numbers of a lower-case abbreviation
MonthsNamed(low) == { m \in 1..12 : MonthNames[m] = low }

parse_date(dt) ==
    LET tok == DateTokens(dt)
    IN  IF dt = <<>> \/ dt[1] \in Whitespace \/ dt[Len(dt)] \in Whitespace
        THEN None
        ELSE IF Len(tok) # 3 THEN None
        ELSE IF MonthsNamed(Lower(tok[1])) = {} THEN None
        ELSE IF ~(IsDigit(tok[2]) /\ Len(tok[2]) <= 2
                    /\ DecVal(tok[2]) \in 1..31) THEN None
        ELSE IF ~(IsDigit(tok[3]) /\ Len(tok[3]) = 4) THEN None
        ELSE LET month == CHOOSE m \in MonthsNamed(Lower(tok[1])) : TRUE
                 day == DecVal(tok[2])
                 year == DecVal(tok[3])
             IN  IF year < 1 \/ day > DaysIn(month, year) THEN None
                 ELSE Ok(year * 10000 + month * 100 + day)

(***************************************************************************)
(* is_valid_grade: int(g) in 7..12, False when int() raises.               *)
(***************************************************************************)
is_valid_grade(g) == IntOk(g) /\ 7 <= IntVal(g) /\ IntVal(g) <= 12

(***************************************************************************)
(* build_summary: (pr_str, sr_str, current_grade) of one athlete's records.*)
(* current_grade is str(int(g)) in the code; the model keeps the integer,  *)
(* None standing for the code's "N/A".  A ValueError of time_to_seconds    *)
(* is not caught and leaves build_summary.                                 *)
(***************************************************************************)
TimeOf(r) == time_to_seconds(safe(r, "Time", NA))

DateOf(r) == parse_date(safe(r, "Date", NA))

GradeOf(r) == safe(r, "Grade", NA)

\* the loop "if secs is not None and (best is None or secs < best)"
RECURSIVE BestTime(_, _)
BestTime(recs, acc) ==
    IF recs = <<>> THEN acc
    ELSE LET r == Head(recs)
             secs == TimeOf(r)
         IN  BestTime(Tail(recs),
                 IF secs.status = "ok"
                      /\ (acc.secs.status = "none" \/ secs.val < acc.secs.val)
                 THEN [secs |-> secs, str |-> safe(r, "Time", NA)]
                 ELSE acc)

NoBest == [secs |-> None, str |-> NA]

\* dated_rows: the (date, record) pairs of the records whose date parses
RECURSIVE DatedRows(_)
DatedRows(recs) ==
    IF recs = <<>> THEN <<>>
    ELSE LET dt == DateOf(Head(recs))
         IN  (IF dt.status = "ok" THEN << <<dt.val, Head(recs)>> >> ELSE <<>>)
               \o DatedRows(Tail(recs))

\* list.sort(key=lambda x: x[0], reverse=True): a stable sort, pairs with
\* equal keys keep their original order also under reverse=True
\* a sort that puts the later of two equally dated rows first
InsertDesc_Unstable(sorted, x) ==
    LET before == SelectSeq(sorted, LAMBDA y : y[1] > x[1])
        after == SelectSeq(sorted, LAMBDA y : y[1] <= x[1])
    IN  before \o <<x>> \o after

InsertDesc(sorted, x) ==
    LET before == SelectSeq(sorted, LAMBDA y : y[1] >= x[1])
        after == SelectSeq(sorted, LAMBDA y : y[1] < x[1])
    IN  before \o <<x>> \o after

RECURSIVE SortDesc(_)
SortDesc(seq) ==
    IF seq = <<>> THEN <<>>
    ELSE InsertDesc(SortDesc(SubSeq(seq, 1, Len(seq) - 1)), seq[Len(seq)])

\* the first row of the sorted list whose grade is valid decides
RECURSIVE FirstValidGrade(_)
FirstValidGrade(dated) ==
    IF dated = <<>> THEN None
    ELSE LET g == GradeOf(Head(dated)[2])
         IN  IF is_valid_grade(g) THEN Ok(IntVal(g))
             ELSE FirstValidGrade(Tail(dated))

\* a season loop that forgets to compare the grade with the current grade
InGrade_AnyValid(r, grade) == is_valid_grade(GradeOf(r))

InGrade(r, grade) ==
    is_valid_grade(GradeOf(r)) /\ IntVal(GradeOf(r)) = grade.val

SummaryRaised == [status |-> "raised", pr |-> NA, sr |-> NA, grade |-> None]

\* a personal record taken over the records of the current grade only
build_summary_PrInGrade(recs) ==
    IF \E i \in 1..Len(recs) : TimeOf(recs[i]).status = "raised"
    THEN SummaryRaised
    ELSE LET current_grade == FirstValidGrade(SortDesc(DatedRows(recs)))
             sr == IF current_grade.status = "ok"
                   THEN BestTime(SelectSeq(recs,
                                   LAMBDA r : InGrade(r, current_grade)),
                                 NoBest)
                   ELSE NoBest
         IN  [status |-> "ok", pr |-> sr.str, sr |-> sr.str,
              grade |-> current_grade]

build_summary(recs) ==
    IF \E i \in 1..Len(recs) : TimeOf(recs[i]).status = "raised"
    THEN SummaryRaised
    ELSE LET pr == BestTime(recs, NoBest)
             current_grade == FirstValidGrade(SortDesc(DatedRows(recs)))
             sr == IF current_grade.status = "ok"
                   THEN BestTime(SelectSeq(recs,
                                   LAMBDA r : InGrade(r, current_grade)),
                                 NoBest)
                   ELSE NoBest
         IN  [status |-> "ok", pr |-> pr.str, sr |-> sr.str,
              grade |-> current_grade]

(***************************************************************************)
(* build_athlete_stats: the summary of one athlete and the map from meet   *)
(* name to place.  The records are those read from the athlete's CSV file; *)
(* without records the result is the empty dict.                           *)
(***************************************************************************)
\* meets[meet] = int(place) for every record with a meet name and a purely
\* numeric place, in record order
RECURSIVE MeetPlaces(_, _)
MeetPlaces(recs, meets) ==
    IF recs = <<>> THEN meets
    ELSE LET meet == safe(Head(recs), "Meet", NA)
             place == safe(Head(recs), "Place", NA)
         IN  MeetPlaces(Tail(recs),
                 IF meet # NA /\ IsDigit(place)
                 THEN [m \in DOMAIN meets \cup {meet} |->
                          IF m = meet THEN DecVal(place) ELSE meets[m]]
                 ELSE meets)

NoMeets == [m \in {} |-> 0]

EmptyStats ==
    [status |-> "empty", id |-> "", name |-> NA, grade |-> None, sr |-> NA,
     pr |-> NA, meet_count |-> 0, meets |-> NoMeets]

build_athlete_stats(athlete_id, recs) ==
    IF recs = <<>> THEN EmptyStats
    ELSE LET summary == build_summary(recs)
             meets == MeetPlaces(recs, NoMeets)
         IN  IF summary.status = "raised"
             THEN [EmptyStats EXCEPT !.status = "raised"]
             ELSE [status |-> "ok", id |-> athlete_id,
                   name |-> safe(recs[1], "Name", NA),
                   grade |-> summary.grade, sr |-> summary.sr,
                   pr |-> summary.pr,
                   meet_count |-> Cardinality(DOMAIN meets),
                   meets |-> meets]

(***************************************************************************)
(* The comparison builder.  athletes is the dict of gather_all_athlete_    *)
(* stats in its iteration order: a sequence of stats with distinct ids.    *)
(***************************************************************************)
DEFAULT_ID == "21615274"

\* athletes.get(id): the stats under that key, or None
Get(aths, id) ==
    IF \E i \in 1..Len(aths) : aths[i].id = id
    THEN aths[CHOOSE i \in 1..Len(aths) : aths[i].id = id]
    ELSE EmptyStats

NoPair == [found |-> FALSE, a |-> EmptyStats, b |-> EmptyStats]

choose_default_comparison(aths) ==
    LET a == Get(aths, DEFAULT_ID)
        b == Get(aths, DEFAULT_ID)
    IN  IF a.status = "ok" /\ b.status = "ok"
        THEN [found |-> TRUE, a |-> a, b |-> b]
        ELSE IF Len(aths) >= 2
        THEN [found |-> TRUE, a |-> aths[1], b |-> aths[2]]
        ELSE NoPair

\* ord() of the characters of meet names
Ord(c) ==
    IF \E i \in 1..26 : UpperLetters[i] = c
    THEN 64 + (CHOOSE i \in 1..26 : UpperLetters[i] = c)
    ELSE IF \E i \in 1..26 : LowerLetters[i] = c
    THEN 96 + (CHOOSE i \in 1..26 : LowerLetters[i] = c)
    ELSE IF c \in Digits THEN 48 + DigitVal(c)
    ELSE 32

\* Python's str "<": the first differing character decides, a proper prefix
\* is smaller
RECURSIVE StrLess(_, _)
StrLess(x, y) ==
    IF y = <<>> THEN FALSE
    ELSE IF x = <<>> THEN TRUE
    ELSE IF Head(x) = Head(y) THEN StrLess(Tail(x), Tail(y))
    ELSE Ord(Head(x)) < Ord(Head(y))

\* sorted(set of strings)
RECURSIVE Sorted(_)
Sorted(S) ==
    IF S = {} THEN <<>>
    ELSE LET least == CHOOSE x \in S : \A y \in S : x = y \/ StrLess(x, y)
         IN  <<least>> \o Sorted(S \ {least})

\* one row <<meet, a's place, b's place>> for each "<tr>" of the table
build_shared_meet_rows_SamePlace(a, b) ==
    LET shared == Sorted(DOMAIN a.meets \cap DOMAIN b.meets)
    IN  [i \in 1..Len(shared) |->
            <<shared[i], a.meets[shared[i]], a.meets[shared[i]]>>]

build_shared_meet_rows(a, b) ==
    LET shared == Sorted(DOMAIN a.meets \cap DOMAIN b.meets)
    IN  [i \in 1..Len(shared) |->
            <<shared[i], a.meets[shared[i]], b.meets[shared[i]]>>]

\* the page fragment: "Not enough athletes to compare." or the two cards
\* and the shared-meets table
build_player_comparison_html(aths) ==
    LET pair == choose_default_comparison(aths)
    IN  IF ~pair.found
        THEN [status |-> "not_enough", a |-> EmptyStats, b |-> EmptyStats,
              shared_rows |-> <<>>]
        ELSE [status |-> "compared", a |-> pair.a, b |-> pair.b,
              shared_rows |-> build_shared_meet_rows(pair.a, pair.b)]

(***************************************************************************)
(* build_team_accomplishments: the list of items over the records of all   *)
(* athletes.  An item is a tuple whose first element is its label.         *)
(***************************************************************************)
\* the loop keeping the row of the smallest parsed time
RECURSIVE FastestRow(_, _)
FastestRow(rws, acc) ==
    IF rws = <<>> THEN acc
    ELSE LET secs == TimeOf(Head(rws))
         IN  FastestRow(Tail(rws),
                 IF secs.status = "ok"
                      /\ (~acc.found \/ secs.val < acc.key)
                 THEN [found |-> TRUE, key |-> secs.val, row |-> Head(rws)]
                 ELSE acc)

\* the loop keeping the row of the smallest numeric place
RECURSIVE BestPlaceRow(_, _)
BestPlaceRow(rws, acc) ==
    IF rws = <<>> THEN acc
    ELSE LET p == safe(Head(rws), "Place", NA)
         IN  BestPlaceRow(Tail(rws),
                 IF IsDigit(p) /\ (~acc.found \/ DecVal(p) < acc.key)
                 THEN [found |-> TRUE, key |-> DecVal(p), row |-> Head(rws)]
                 ELSE acc)

NoRow == [found |-> FALSE, key |-> 0, row |-> <<>>]

\* best_by_grade[g]: the fastest row among the rows of valid grade g
BestByGrade(rws, g) ==
    FastestRow(SelectSeq(rws, LAMBDA r : InGrade(r, Ok(g))), NoRow)

RECURSIVE GradeItems(_, _)
GradeItems(rws, g) ==
    IF g > 12 THEN <<>>
    ELSE LET best == BestByGrade(rws, g)
         IN  (IF best.found
              THEN << <<"Best Grade Athlete", g, best.row.Name,
                        best.row.Time>> >>
              ELSE <<>>)
               \o GradeItems(rws, g + 1)

\* a record counts for its athlete when it has a name and a meet name
Counted_AnyMeet(r) == safe(r, "Name", NA) # NA

Counted(r) == safe(r, "Name", NA) # NA /\ safe(r, "Meet", NA) # NA

\* meet_counts: <<name, count>> pairs in the order of first insertion
RECURSIVE MeetCounts(_, _)
MeetCounts(rws, counts) ==
    IF rws = <<>> THEN counts
    ELSE LET name == safe(Head(rws), "Name", NA)
         IN  MeetCounts(Tail(rws),
                 IF ~Counted(Head(rws)) THEN counts
                 ELSE IF \E i \in 1..Len(counts) : counts[i][1] = name
                 THEN [i \in 1..Len(counts) |->
                          IF counts[i][1] = name
                          THEN <<name, counts[i][2] + 1>>
                          ELSE counts[i]]
                 ELSE Append(counts, <<name, 1>>))

\* max(meet_counts, key=...): the first key of the greatest count
TopOf(counts) ==
    counts[CHOOSE i \in 1..Len(counts) :
              /\ \A j \in 1..Len(counts) : counts[j][2] <= counts[i][2]
              /\ \A j \in 1..(i - 1) : counts[j][2] < counts[i][2]]

build_team_accomplishments(rws) ==
    IF \E i \in 1..Len(rws) : TimeOf(rws[i]).status = "raised"
    THEN [status |-> "raised", items |-> <<>>]
    ELSE LET fastest == FastestRow(rws, NoRow)
             best_place == BestPlaceRow(rws, NoRow)
             meet_counts == MeetCounts(rws, <<>>)
         IN  [status |-> "ok",
              items |->
                 (IF fastest.found
                  THEN << <<"Fastest Time", fastest.row.Name,
                            fastest.row.Time>> >>
                  ELSE <<>>)
                 \o (IF best_place.found
                     THEN << <<"Highest Placement", best_place.row.Name,
                               best_place.key>> >>
                     ELSE <<>>)
                 \o GradeItems(rws, 7)
                 \o (IF meet_counts # <<>>
                     THEN << <<"Most Meets Competed", TopOf(meet_counts)[1],
                               TopOf(meet_counts)[2]>> >>
                     ELSE <<>>)]

(***************************************************************************)
(* build_team_events_rows: one event per meet name, in the order of first  *)
(* appearance, then sorted by date.  An output row is                      *)
(* <<meet, date or None, best place or None, url or "N/A">>.               *)
(***************************************************************************)
PlaceVal(r) ==
    LET place == safe(r, "Place", NA)
    IN  IF IsDigit(place) THEN Ok(DecVal(place)) ELSE None

\* the branch taken for a meet that is already in events; the date is only
\* ever replaced by an earlier one
UpdateEvent_KeepFirst(ev, r) ==
    LET date == DateOf(r)
        place_val == PlaceVal(r)
        url == safe(r, "Url", <<>>)
    IN  [meet |-> ev.meet,
         date |-> IF date.status = "ok" /\ ev.date.status = "ok"
                       /\ date.val < ev.date.val
                  THEN date ELSE ev.date,
         best_place |-> IF place_val.status = "ok" /\ ev.best_place.status = "ok"
                             /\ place_val.val < ev.best_place.val
                        THEN place_val ELSE ev.best_place,
         url |-> IF ev.url = <<>> /\ url # NA THEN url ELSE ev.url]

UpdateEvent(ev, r) ==
    LET date == DateOf(r)
        place_val == PlaceVal(r)
        url == safe(r, "Url", <<>>)
    IN  [meet |-> ev.meet,
         date |-> IF date.status = "ok"
                       /\ (ev.date.status = "none" \/ date.val < ev.date.val)
                  THEN date ELSE ev.date,
         best_place |-> IF place_val.status = "ok"
                             /\ (ev.best_place.status = "none"
                                   \/ place_val.val < ev.best_place.val)
                        THEN place_val ELSE ev.best_place,
         url |-> IF ev.url = <<>> /\ url # NA THEN url ELSE ev.url]

NewEvent(r) ==
    [meet |-> safe(r, "Meet", NA), date |-> DateOf(r),
     best_place |-> PlaceVal(r), url |-> safe(r, "Url", <<>>)]

RECURSIVE Events(_, _)
Events(rws, events) ==
    IF rws = <<>> THEN events
    ELSE LET r == Head(rws)
             meet == safe(r, "Meet", NA)
         IN  Events(Tail(rws),
                 IF meet = NA THEN events
                 ELSE IF ~\E i \in 1..Len(events) : events[i].meet = meet
                 THEN Append(events, NewEvent(r))
                 ELSE [i \in 1..Len(events) |->
                          IF events[i].meet = meet
                          THEN UpdateEvent(events[i], r)
                          ELSE events[i]])

\* the sort key "date or datetime.max"; datetime.max is later than any date
DatetimeMax == 100000000

DateKey(ev) == IF ev.date.status = "ok" THEN ev.date.val ELSE DatetimeMax

\* sorted(events.items(), key=...): stable, ascending
InsertAsc(sorted, x) ==
    LET before == SelectSeq(sorted, LAMBDA y : DateKey(y) <= DateKey(x))
        after == SelectSeq(sorted, LAMBDA y : DateKey(y) > DateKey(x))
    IN  before \o <<x>> \o after

RECURSIVE SortAsc(_)
SortAsc(seq) ==
    IF seq = <<>> THEN <<>>
    ELSE InsertAsc(SortAsc(SubSeq(seq, 1, Len(seq) - 1)), seq[Len(seq)])

build_team_events_rows(rws) ==
    LET sorted == SortAsc(Events(rws, <<>>))
    IN  [i \in 1..Len(sorted) |->
            <<sorted[i].meet, sorted[i].date, sorted[i].best_place,
              IF sorted[i].url # <<>> /\ sorted[i].url # NA
              THEN sorted[i].url ELSE NA>>]

(***************************************************************************)
(* Inputs of the time parser: every string over TimeAlphabet up to         *)
(* MaxTimeLen characters.                                                  *)
(***************************************************************************)
TimeAlphabet == {"0", "1", "7", ":", ".", " ", "P", "R", "a"}

StringsUpTo(alphabet, n) == UNION {[1..k -> alphabet] : k \in 0..n}

TimeStrings == StringsUpTo(TimeAlphabet, MaxTimeLen)

Idle == [status |-> "idle", val |-> 0]

InitTime ==
    /\ pc = "start"
    /\ t \in TimeStrings
    /\ d = <<>>
    /\ records = <<>>
    /\ athletes = <<>>
    /\ rows = <<>>
    /\ result = Idle

ParseTime ==
    /\ pc = "start"
    /\ result' = time_to_seconds(t)
    /\ pc' = "done"
    /\ UNCHANGED <<t, d, records, athletes, rows>>

NextTime == ParseTime

SpecTime == InitTime /\ [][NextTime]_vars

(***************************************************************************)
(* Inputs of the date parser: month, day and year tokens joined by         *)
(* separators, with and without the comma after the day, and the blank and *)
(* "N/A" fields.                                                           *)
(***************************************************************************)
MonthTokens ==
    { <<"A", "u", "g">>, <<"a", "u", "g">>, <<"F", "e", "b">>,
      <<"S", "e", "p", "t">>, <<"8">> }

DayTokens == { <<"1">>, <<"0", "1">>, <<"2", "9">>, <<"3", "0">>, <<"0">>,
               <<"3", "2">>, <<"0", "0", "1">> }

DayEnds == { <<>>, <<",">> }

Separators == { <<" ">>, <<" ", " ">>, <<>> }

YearTokens == { <<"2", "0", "2", "4">>, <<"2", "0", "2", "3">>,
                <<"2", "4">>, <<"0", "0", "0", "0">> }

DateStrings ==
    { mo \o s1 \o dy \o de \o s2 \o yr :
        <<mo, s1, dy>> \in MonthTokens \X Separators \X DayTokens,
        <<de, s2, yr>> \in DayEnds \X Separators \X YearTokens }
    \cup { <<>>, NA }

InitDate ==
    /\ pc = "start"
    /\ t = <<>>
    /\ d \in DateStrings
    /\ records = <<>>
    /\ athletes = <<>>
    /\ rows = <<>>
    /\ result = Idle

ParseDate ==
    /\ pc = "start"
    /\ result' = parse_date(d)
    /\ pc' = "done"
    /\ UNCHANGED <<t, d, records, athletes, rows>>

NextDate == ParseDate

SpecDate == InitDate /\ [][NextDate]_vars

(***************************************************************************)
(* Inputs of build_summary: up to MaxRecords records of one athlete, whose *)
(* Date, Time and Grade fields range over small sets.                      *)
(***************************************************************************)
Aug1 == <<"A", "u", "g", " ", "1", " ", "2", "0", "2", "4">>

Sep1 == <<"S", "e", "p", " ", "1", " ", "2", "0", "2", "4">>

T1730 == <<"1", "7", ":", "3", "0">>

T1800 == <<"1", "8", ":", "0", "0">>

TBad == <<"a", "b", ":", "c", "d">>

G10 == <<"1", "0">>

G11 == <<"1", "1">>

G13 == <<"1", "3">>

Rec(name, meet, date, time, place, grade, url) ==
    [Name |-> name, Meet |-> meet, Date |-> date, Time |-> time,
     Place |-> place, Grade |-> grade, Url |-> url]

SummaryDates == {<<>>, Aug1, Sep1}

SummaryTimes == {<<>>, T1730, T1800}

\* grade 11 with every date and time, grade 10 with every date, with and
\* without a time, records of an invalid grade with a date or a time, and one
\* record whose time makes time_to_seconds raise
SummaryRecords ==
    { Rec(<<"A">>, <<"M">>, dt, tm, <<"1">>, G11, <<>>) :
        dt \in SummaryDates, tm \in SummaryTimes }
    \cup { Rec(<<"A">>, <<"M">>, dt, tm, <<"1">>, G10, <<>>) :
             dt \in SummaryDates, tm \in {<<>>, T1730} }
    \cup { Rec(<<"A">>, <<"M">>, <<>>, T1730, <<"1">>, G13, <<>>),
           Rec(<<"A">>, <<"M">>, Sep1, <<>>, <<"1">>, G13, <<>>),
           Rec(<<"A">>, <<"M">>, Sep1, T1730, <<"1">>, G13, <<>>),
           Rec(<<"A">>, <<"M">>, Sep1, TBad, <<"1">>, G11, <<>>) }

InitSummary ==
    /\ pc = "start"
    /\ t = <<>>
    /\ d = <<>>
    /\ \E n \in 0..MaxRecords : records \in [1..n -> SummaryRecords]
    /\ athletes = <<>>
    /\ rows = <<>>
    /\ result = Idle

BuildSummary ==
    /\ pc = "start"
    /\ result' = build_summary(records)
    /\ pc' = "done"
    /\ UNCHANGED <<t, d, records, athletes, rows>>

NextSummary == BuildSummary

SpecSummary == InitSummary /\ [][NextSummary]_vars

Returned == pc = "done" /\ result.status = "ok"

\* the parsed time, parsed date and grade of each record, by position
Times(recs) == [i \in 1..Len(recs) |-> TimeOf(recs[i])]

Dates(recs) == [i \in 1..Len(recs) |-> DateOf(recs[i])]

ValidGrades(recs) ==
    [i \in 1..Len(recs) |->
        IF is_valid_grade(GradeOf(recs[i])) THEN Ok(IntVal(GradeOf(recs[i])))
        ELSE None]

\* C1: the personal record returned by build_summary is the Time of a record
\* whose parsed time is the minimum over all records with a parseable time,
\* whatever their grade or date; it is "N/A" when no record has a parseable
\* time.
C1_PersonalRecord ==
    Returned =>
        \A tm \in {Times(records)} :
        LET parseable == { i \in 1..Len(records) : tm[i].status = "ok" }
        IN  IF parseable # {}
            THEN \E i \in parseable :
                    /\ result.pr = safe(records[i], "Time", NA)
                    /\ \A j \in parseable : tm[i].val <= tm[j].val
            ELSE result.pr = NA

\* the fastest record has neither a date nor a valid grade, a slower one is
\* the dated record that decides the grade
C1_Witness ==
    /\ Returned
    /\ result.pr = T1730
    /\ result.grade = Ok(11)
    /\ \E i, j \in 1..Len(records) :
          /\ records[i].Time = T1730 /\ records[i].Date = <<>>
          /\ records[i].Grade = G13
          /\ records[j].Time = T1800 /\ records[j].Grade = G11
    /\ \A i \in 1..Len(records) :
          records[i].Time = T1730 => records[i].Grade = G13

C1_NoneParseable_Witness ==
    /\ Returned
    /\ Len(records) > 0
    /\ result.pr = NA

\* C2: the current grade returned by build_summary is the grade of the record
\* with the latest parseable date among the records that have a parseable
\* date and a valid grade, the earliest in input order among those sharing
\* that date; it is "unknown" when there is no such record.
C2_CurrentGrade ==
    Returned =>
        \A dt \in {Dates(records)} : \A gr \in {ValidGrades(records)} :
        LET eligible == { i \in 1..Len(records) :
                            dt[i].status = "ok" /\ gr[i].status = "ok" }
        IN  IF eligible # {}
            THEN \E i \in eligible :
                    /\ \A j \in eligible :
                          \/ dt[j].val < dt[i].val
                          \/ dt[j].val = dt[i].val /\ i <= j
                    /\ result.grade = gr[i]
            ELSE result.grade = None

\* the latest row has no valid grade, and two rows of different grades share
\* the next date: the earlier one in input order decides
C2_Witness ==
    /\ Returned
    /\ Len(records) = 3
    /\ \E i \in 1..3 : records[i].Date = Sep1 /\ records[i].Grade = G13
    /\ \E j, k \in 1..3 :
          /\ j < k
          /\ records[j].Date = Aug1 /\ records[j].Grade = G10
          /\ records[k].Date = Aug1 /\ records[k].Grade = G11
    /\ result.grade = Ok(10)

\* C3: the season record returned by build_summary is the Time of a record
\* with the minimum parsed time among the records whose valid grade equals
\* the current grade, dated or not; it is "N/A" when the current grade is
\* unknown or no record of that grade has a parseable time.
C3_SeasonRecord ==
    Returned =>
        \A tm \in {Times(records)} : \A gr \in {ValidGrades(records)} :
        LET inSeason == { i \in 1..Len(records) :
                            /\ result.grade.status = "ok"
                            /\ gr[i] = result.grade
                            /\ tm[i].status = "ok" }
        IN  IF inSeason # {}
            THEN \E i \in inSeason :
                    /\ result.sr = safe(records[i], "Time", NA)
                    /\ \A j \in inSeason : tm[i].val <= tm[j].val
            ELSE result.sr = NA

\* the season record comes from an undated record of the current grade while
\* a faster record of another grade exists
C3_Witness ==
    /\ Returned
    /\ result.grade = Ok(11)
    /\ result.sr = T1800
    /\ result.pr = T1730
    /\ \E i, j \in 1..Len(records) :
          /\ records[i].Grade = G11 /\ records[i].Date = <<>>
          /\ records[i].Time = T1800
          /\ records[j].Grade = G10 /\ records[j].Time = T1730
    /\ \A i \in 1..Len(records) :
          (records[i].Grade = G11 /\ records[i].Date # <<>>)
              => records[i].Time = <<>>

(***************************************************************************)
(* Inputs of build_athlete_stats: up to MaxRecords records of one athlete  *)
(* with their meet names and places.                                       *)
(***************************************************************************)
MeetA == <<"A">>

MeetAb == <<"A", "b">>

MeetB == <<"B">>

StatsMeets == {<<>>, MeetA, MeetB}

StatsPlaces == {<<>>, <<"2">>, <<"5">>, <<"2", "n", "d">>}

StatsRecords ==
    { Rec(<<"A">>, meet, Aug1, T1730, place, G11, <<>>) :
        meet \in StatsMeets, place \in StatsPlaces }
    \cup { Rec(<<"A">>, MeetA, Aug1, TBad, <<"2">>, G11, <<>>) }

InitStats ==
    /\ pc = "start"
    /\ t = <<>>
    /\ d = <<>>
    /\ \E n \in 0..MaxRecords : records \in [1..n -> StatsRecords]
    /\ athletes = <<>>
    /\ rows = <<>>
    /\ result = Idle

BuildAthleteStats ==
    /\ pc = "start"
    /\ result' = build_athlete_stats("1", records)
    /\ pc' = "done"
    /\ UNCHANGED <<t, d, records, athletes, rows>>

NextStats == BuildAthleteStats

SpecStats == InitStats /\ [][NextStats]_vars

Min(S) == CHOOSE x \in S : \A y \in S : x <= y

\* the numeric places of the records of one meet
PlacesAt(recs, meet) ==
    { DecVal(safe(recs[i], "Place", NA)) :
        i \in { k \in 1..Len(recs) :
                  /\ safe(recs[k], "Meet", NA) = meet
                  /\ IsDigit(safe(recs[k], "Place", NA)) } }

\* C4: the per-meet place map of build_athlete_stats maps each meet name
\* other than "N/A" to the lowest numeric Overall Place among the athlete's
\* records of that meet, in whatever order the records appear.
C4_LowestPlace ==
    (pc = "done" /\ result.status = "ok") =>
        /\ \A m \in DOMAIN result.meets :
              m # NA /\ PlacesAt(records, m) # {}
                 /\ result.meets[m] = Min(PlacesAt(records, m))
        /\ \A i \in 1..Len(records) :
              LET m == safe(records[i], "Meet", NA)
              IN  (m # NA /\ PlacesAt(records, m) # {})
                     => m \in DOMAIN result.meets

(***************************************************************************)
(* Inputs of the comparison builder: up to MaxAthletes athletes with       *)
(* distinct ids, each with a map from meet names to places.                *)
(***************************************************************************)
AthleteIds == {DEFAULT_ID, "1001", "1002"}

CompareMeets == {MeetA, MeetAb, MeetB}

ComparePlaces == {2, 5}

MeetMaps == UNION { [S -> ComparePlaces] : S \in SUBSET CompareMeets }

StatsOf(id, meets) ==
    [status |-> "ok", id |-> id, name |-> <<"A">>, grade |-> Ok(11),
     sr |-> T1730, pr |-> T1730, meet_count |-> Cardinality(DOMAIN meets),
     meets |-> meets]

InitCompare ==
    /\ pc = "start"
    /\ t = <<>>
    /\ d = <<>>
    /\ records = <<>>
    /\ \E n \in 0..MaxAthletes :
          \E ids \in [1..n -> AthleteIds] : \E ms \in [1..n -> MeetMaps] :
             /\ \A i, j \in 1..n : i # j => ids[i] # ids[j]
             /\ athletes = [i \in 1..n |-> StatsOf(ids[i], ms[i])]
    /\ rows = <<>>
    /\ result = Idle

BuildPlayerComparison ==
    /\ pc = "start"
    /\ result' = build_player_comparison_html(athletes)
    /\ pc' = "done"
    /\ UNCHANGED <<t, d, records, athletes, rows>>

NextCompare == BuildPlayerComparison

SpecCompare == InitCompare /\ [][NextCompare]_vars

HasDefault == \E i \in 1..Len(athletes) : athletes[i].id = DEFAULT_ID

\* C5: with at least two athletes the comparison builder compares two
\* different athletes (the default athlete first when present, otherwise the
\* first two in iteration order); with fewer than two it reports that there
\* are not enough athletes; an athlete is never compared with itself.
C5_TwoDifferentAthletes ==
    pc = "done" =>
        IF Len(athletes) >= 2
        THEN /\ result.status = "compared"
             /\ result.a.id # result.b.id
             /\ HasDefault => result.a.id = DEFAULT_ID
             /\ ~HasDefault =>
                   result.a = athletes[1] /\ result.b = athletes[2]
        ELSE result.status = "not_enough"

\* C6: build_shared_meet_rows produces exactly one row per meet name that is
\* in both athletes' place maps and no other row, each row carrying a's place
\* and b's place at that meet, in ascending order of meet name.
C6_SharedMeetRows ==
    (pc = "done" /\ result.status = "compared") =>
        LET shared == DOMAIN result.a.meets \cap DOMAIN result.b.meets
            out == result.shared_rows
        IN  /\ Len(out) = Cardinality(shared)
            /\ \A m \in shared : \E i \in 1..Len(out) : out[i][1] = m
            /\ \A i \in 1..Len(out) :
                  /\ out[i][1] \in shared
                  /\ out[i][2] = result.a.meets[out[i][1]]
                  /\ out[i][3] = result.b.meets[out[i][1]]
            /\ \A i, j \in 1..Len(out) :
                  i < j => StrLess(out[i][1], out[j][1])

\* two different athletes share one meet with places 2 and 5 and each ran a
\* meet the other did not
C6_Witness ==
    /\ pc = "done"
    /\ result.status = "compared"
    /\ result.a.id # result.b.id
    /\ result.shared_rows = << <<MeetAb, 2, 5>> >>
    /\ DOMAIN result.a.meets = {MeetA, MeetAb}
    /\ DOMAIN result.b.meets = {MeetAb, MeetB}

\* two shared meets, one name a prefix of the other
C6_Order_Witness ==
    /\ pc = "done"
    /\ result.status = "compared"
    /\ Len(result.shared_rows) = 3
    /\ result.shared_rows[1][1] = MeetA
    /\ result.shared_rows[2][1] = MeetAb
    /\ result.shared_rows[3][1] = MeetB

(***************************************************************************)
(* Inputs of build_team_events_rows: up to MaxRows records of the team.    *)
(***************************************************************************)
Url1 == <<"u">>

EventPlaces == {<<>>, <<"3">>, <<"7">>}

\* every combination of date and place at two meets, a record without a
\* meet name, and two records with a results URL
EventRecords ==
    { Rec(<<"A">>, meet, dt, T1730, place, G11, <<>>) :
        meet \in {MeetA, MeetB}, dt \in SummaryDates, place \in EventPlaces }
    \cup { Rec(<<"A">>, <<>>, Aug1, T1730, <<"3">>, G11, <<>>),
           Rec(<<"A">>, MeetA, Aug1, T1730, <<"3">>, G11, Url1),
           Rec(<<"A">>, MeetA, <<>>, TBad, <<>>, G11, NA) }

InitEvents ==
    /\ pc = "start"
    /\ t = <<>>
    /\ d = <<>>
    /\ records = <<>>
    /\ athletes = <<>>
    /\ \E n \in 0..MaxRows : rows \in [1..n -> EventRecords]
    /\ result = Idle

BuildTeamEvents ==
    /\ pc = "start"
    /\ result' = build_team_events_rows(rows)
    /\ pc' = "done"
    /\ UNCHANGED <<t, d, records, athletes, rows>>

NextEvents == BuildTeamEvents

SpecEvents == InitEvents /\ [][NextEvents]_vars

\* the parsed dates of the records of one meet, dt being Dates(rws)
DatesAt(rws, dt, meet) ==
    { dt[i].val :
        i \in { k \in 1..Len(rws) :
                  safe(rws[k], "Meet", NA) = meet /\ dt[k].status = "ok" } }

\* C7: build_team_events_rows yields exactly one event per distinct meet name
\* other than "N/A", whose date is the earliest parseable date and whose best
\* place is the lowest numeric Overall Place over all records of that meet,
\* and the events are in ascending order of date, those without a date last.
C7_TeamEvents ==
    pc = "done" =>
        \A dt \in {Dates(rows)} :
        LET meets == { safe(rows[i], "Meet", NA) : i \in 1..Len(rows) } \ {NA}
        IN  /\ Len(result) = Cardinality(meets)
            /\ \A m \in meets : \E i \in 1..Len(result) : result[i][1] = m
            /\ \A i \in 1..Len(result) :
                  \A ds \in {DatesAt(rows, dt, result[i][1])} :
                  \A ps \in {PlacesAt(rows, result[i][1])} :
                      /\ result[i][1] \in meets
                      /\ result[i][2] = IF ds = {} THEN None ELSE Ok(Min(ds))
                      /\ result[i][3] = IF ps = {} THEN None ELSE Ok(Min(ps))
            /\ \A i, j \in 1..Len(result) :
                  i < j =>
                     \/ result[j][2].status = "none"
                     \/ /\ result[i][2].status = "ok"
                        /\ result[i][2].val <= result[j][2].val

\* the first record of meet A has neither a date nor a place and a later one
\* has both; meet B, seen first, has no date and comes last
C7_Witness ==
    /\ pc = "done"
    /\ Len(rows) = 3
    /\ rows[1].Meet = MeetB /\ rows[1].Date = <<>>
    /\ rows[2].Meet = MeetA /\ rows[2].Date = <<>> /\ rows[2].Place = <<>>
    /\ rows[3].Meet = MeetA /\ rows[3].Date = Aug1
    /\ rows[3].Place = <<"3">>
    /\ Len(result) = 2
    /\ result[1][1] = MeetA /\ result[1][2] = Ok(20240801)
    /\ result[1][3] = Ok(3)
    /\ result[2][1] = MeetB /\ result[2][2] = None

\* places 3 and 7 at the same meet, the 7 first
C7_BestPlace_Witness ==
    /\ pc = "done"
    /\ Len(rows) >= 2
    /\ rows[1].Meet = MeetA /\ rows[1].Place = <<"7">>
    /\ rows[2].Meet = MeetA /\ rows[2].Place = <<"3">>
    /\ \E i \in 1..Len(result) : result[i][1] = MeetA /\ result[i][3] = Ok(3)

(***************************************************************************)
(* Inputs of build_team_accomplishments: up to MaxRows records of the team.*)
(***************************************************************************)
NameA == <<"A", "n", "n">>

NameB == <<"B", "o">>

TeamNames == {<<>>, NameA, NameB}

TeamMeets == {<<>>, MeetA, MeetB}

AccomplishmentRecords ==
    { Rec(name, meet, Aug1, T1730, <<"3">>, G10, <<>>) :
        name \in TeamNames, meet \in TeamMeets }
    \cup { Rec(name, meet, Sep1, T1800, <<"7">>, G11, <<>>) :
             name \in TeamNames, meet \in TeamMeets }
    \cup { Rec(NameA, MeetA, Sep1, TBad, <<>>, G11, <<>>) }

InitAccomplishments ==
    /\ pc = "start"
    /\ t = <<>>
    /\ d = <<>>
    /\ records = <<>>
    /\ athletes = <<>>
    /\ \E n \in 0..MaxRows : rows \in [1..n -> AccomplishmentRecords]
    /\ result = Idle

BuildTeamAccomplishments ==
    /\ pc = "start"
    /\ result' = build_team_accomplishments(rows)
    /\ pc' = "done"
    /\ UNCHANGED <<t, d, records, athletes, rows>>

NextAccomplishments == BuildTeamAccomplishments

SpecAccomplishments == InitAccomplishments /\ [][NextAccomplishments]_vars

\* the items of the 'most meets competed' kind, as <<name, count>>
MostMeetsItems ==
    SelectSeq(result.items, LAMBDA it : it[1] = "Most Meets Competed")

\* the positions of the records that belong to the athlete of that name
RecordsOf(rws, name) ==
    { i \in 1..Len(rws) : safe(rws[i], "Name", NA) = name }

\* the positions of those that also carry a meet name
MeetRecordsOf(rws, name) ==
    { i \in RecordsOf(rws, name) : safe(rws[i], "Meet", NA) # NA }

NamesIn(rws) == { safe(rws[i], "Name", NA) : i \in 1..Len(rws) } \ {NA}

\* C10: the 'most meets competed' accomplishment names the athlete with the
\* highest number of race records, every record of that athlete counting
\* once, the one whose first record comes first among those tied for the
\* highest count; no such item is produced for an empty record set.
C10_MostRecords ==
    (pc = "done" /\ result.status = "ok") =>
        /\ Len(MostMeetsItems) <= 1
        /\ rows = <<>> => MostMeetsItems = <<>>
        /\ NamesIn(rows) # {} =>
              /\ Len(MostMeetsItems) = 1
              /\ LET top == MostMeetsItems[1][2]
                 IN  /\ top \in NamesIn(rows)
                     /\ \A n \in NamesIn(rows) :
                           \/ Cardinality(RecordsOf(rows, n))
                                 < Cardinality(RecordsOf(rows, top))
                           \/ /\ Cardinality(RecordsOf(rows, n))
                                    = Cardinality(RecordsOf(rows, top))
                              /\ Min(RecordsOf(rows, top))
                                    <= Min(RecordsOf(rows, n))

\* C10, amended: only the records that have both a name and a meet name
\* count; the athlete with the most such records is named with that number,
\* the one whose first such record comes first among those tied; no item is
\* produced when no record counts, in particular for an empty record set.
C10_MostMeetRecords ==
    (pc = "done" /\ result.status = "ok") =>
        LET named == { n \in NamesIn(rows) : MeetRecordsOf(rows, n) # {} }
        IN  IF named = {} THEN MostMeetsItems = <<>>
            ELSE /\ Len(MostMeetsItems) = 1
                 /\ LET top == MostMeetsItems[1][2]
                    IN  /\ top \in named
                        /\ MostMeetsItems[1][3]
                              = Cardinality(MeetRecordsOf(rows, top))
                        /\ \A n \in named :
                              \/ Cardinality(MeetRecordsOf(rows, n))
                                    < Cardinality(MeetRecordsOf(rows, top))
                              \/ /\ Cardinality(MeetRecordsOf(rows, n))
                                       = Cardinality(MeetRecordsOf(rows, top))
                                 /\ Min(MeetRecordsOf(rows, top))
                                       <= Min(MeetRecordsOf(rows, n))

\* two athletes tie with one counted record each; the athlete named is the
\* one counted first, although the other has the first record of the set
\* (one without a meet name)
C10_Witness ==
    /\ pc = "done"
    /\ result.status = "ok"
    /\ Len(rows) = 3
    /\ rows[1].Name = NameB /\ rows[1].Meet = <<>>
    /\ rows[2].Name = NameA /\ rows[2].Meet = MeetA
    /\ rows[3].Name = NameB /\ rows[3].Meet = MeetA
    /\ MostMeetsItems = << <<"Most Meets Competed", NameA, 1>> >>

\* C8: time_to_seconds returns minutes*60+seconds or "unparseable" and never
\* raises: a string with a colon whose minutes part is not an integer or whose
\* part after the first colon is not a number yields "unparseable".
C8_NeverRaises == pc = "done" => result.status \in {"ok", "none"}

DropComma(s) == SelectSeq(s, LAMBDA c : c # ",")

\* "Mon DD, YYYY": the day token ends with the only comma of the string, and
\* without that comma the string is a date
IsCommaVariant(dt) ==
    LET tok == DateTokens(dt)
    IN  /\ Len(tok) = 3
        /\ Len(tok[2]) >= 2
        /\ tok[2][Len(tok[2])] = ","
        /\ Len(DropComma(dt)) = Len(dt) - 1
        /\ parse_date(DropComma(dt)).status = "ok"

\* C9: parse_date accepts "Mon DD YYYY" and the comma variant "Mon DD, YYYY",
\* giving the same calendar date for both, and returns "unparseable" for the
\* empty string and "N/A".
C9_CommaVariantAccepted ==
    pc = "done" =>
        /\ IsCommaVariant(d) => result = parse_date(DropComma(d))
        /\ d \in {<<>>, NA} => result = None

\* C11: the race count in the athlete's summary (the one the side-by-side
\* comparison shows) equals the number of the athlete's race records,
\* including records whose Overall Place is not numeric and several records
\* at the same meet.
\* It is stated for the athletes whose records all name a meet, where the
\* number of race records is beyond doubt.
C11_RaceCount ==
    (/\ pc = "done"
     /\ result.status = "ok"
     /\ \A i \in 1..Len(records) : safe(records[i], "Meet", NA) # NA) =>
        result.meet_count = Len(records)

====
